---- MODULE Spec2Model ----
(***************************************************************************)
(* Model of the ClickUp task retrieval and time-estimate aggregation code: *)
(* the three pagination loops (UserTaskAnalyzer.get_user_tasks, main.py    *)
(* main, streamlit_app.fetch_clickup_data), their client-side status       *)
(* filters, the enrichment pass, UserTaskAnalyzer.calculate_time_estimates, *)
(* the construction of the analyzer with find_user_by_partial_name, the    *)
(* day-by-day report block of main.py and create_structured_output, the    *)
(* Gemini analysis step of main.py with its file writes, and the order of  *)
(* the phases in a run of main.py's and the CLI's main().                  *)
(*                                                                         *)
(* Timestamps are decimal strings, modelled as sequences of digits; a      *)
(* datetime is [sec, micro] (UTC); a calendar date is formatted as the     *)
(* triple <<year, month, day>> that str(date) prints.                      *)
(***************************************************************************)
EXTENDS Integers, Sequences, FiniteSets, TLC

(* ------------------------------ bounds --------------------------------- *)

\* Pages 0 .. MaxPages-1 may be requested in one fetch.
MaxPages == 2

\* Largest number of tasks the remote puts on one page.
MaxPageLen == 1

\* Longest task list handed directly to the aggregator.
MaxTasks == 2

(* ------------------------------ values --------------------------------- *)

\* Python's None, a missing dictionary key, an absent argument: an optional
\* value is the empty sequence when absent and <<x>> when it is x.
None == <<>>

Some(x) == <<x>>

Val(o) == o[1]

\* int(timestamp) of a decimal string.
RECURSIVE ParseInt(_)
ParseInt(digits) ==
    IF digits = <<>> THEN 0
    ELSE 10 * ParseInt(SubSeq(digits, 1, Len(digits) - 1)) + digits[Len(digits)]

\* str(n) of a non-negative integer.
RECURSIVE IntToStr(_)
IntToStr(n) ==
    IF n < 10 THEN <<n>> ELSE Append(IntToStr(n \div 10), n % 10)

\* str.lower() on the status labels and filter entries that occur.
Lower(s) ==
    CASE s = "Open"      -> "open"
      [] s = "Completed" -> "completed"
      [] s = "Done"      -> "done"
      [] OTHER           -> s

\* UserTaskAnalyzer.datetime_to_timestamp: str(int(dt.timestamp() * 1000)).
datetime_to_timestamp(dt) == IntToStr(dt.sec * 1000 + dt.micro \div 1000)

\* UserTaskAnalyzer.timestamp_to_datetime: None for a falsy timestamp,
\* otherwise the UTC instant int(timestamp) / 1000 seconds after the epoch.
timestamp_to_datetime(timestamp) ==
    IF timestamp = None \/ Val(timestamp) = <<>> THEN None
    ELSE LET ms == ParseInt(Val(timestamp))
         IN  Some([sec |-> ms \div 1000, micro |-> (ms % 1000) * 1000])

\* datetime.date(): the proleptic Gregorian calendar date of a UTC instant,
\* as the <<year, month, day>> that str(date) prints as YYYY-MM-DD.
CivilFromDays(z0) ==
    LET z   == z0 + 719468
        era == z \div 146097
        doe == z - era * 146097
        yoe == (doe - doe \div 1460 + doe \div 36524 - doe \div 146096) \div 365
        doy == doe - (365 * yoe + yoe \div 4 - yoe \div 100)
        mp  == (5 * doy + 2) \div 153
        d   == doy - (153 * mp + 2) \div 5 + 1
        m   == IF mp < 10 THEN mp + 3 ELSE mp - 9
        y   == yoe + era * 400 + (IF m <= 2 THEN 1 ELSE 0)
    IN  <<y, m, d>>

DateStr(dt) == CivilFromDays(dt.sec \div 86400)

(* ------------------------------ tasks ---------------------------------- *)

\* Millisecond timestamps as the remote sends them (decimal strings).
TsDay0Late  == <<8,6,3,9,9,9,9,9>>      \* 1970-01-01 23:59:59.999
TsDay1      == <<8,6,4,0,0,0,0,0>>      \* 1970-01-02 00:00:00.000
TsDay2      == <<1,7,2,8,0,0,0,0,1>>    \* 1970-01-03 00:00:00.001
TsDay3      == <<2,5,9,2,0,0,0,0,0>>    \* 1970-01-04 00:00:00.000

Task(id, type, label, est, done, closed, updated) ==
    [id |-> id, status |-> [type |-> type, status |-> label],
     time_estimate |-> est,
     date_done |-> done, date_closed |-> closed, date_updated |-> updated]

\* The tasks the remote holds for the assignee, in the order it lists them.
RemoteTasks ==
    << Task("t1", "closed", "in review", Some(3600000), None, Some(TsDay1), Some(TsDay2)),
       Task("t2", "open",   "Open",      None,          None, None,         Some(TsDay0Late)),
       Task("t3", "custom", "done",      Some(5400000), Some(TsDay3), Some(TsDay1), Some(TsDay2)),
       Task("t4", "open",   "to do",     Some(0),       None, None,         None) >>

\* The tasks at the positions I of the remote's list, in its order.
Listing(I) ==
    LET F[i \in 0..Len(RemoteTasks)] ==
            IF i = 0 THEN <<>>
            ELSE IF i \in I THEN Append(F[i - 1], RemoteTasks[i])
            ELSE F[i - 1]
    IN  F[Len(RemoteTasks)]

\* All sequences over S of length at most n.
SeqsUpTo(S, n) == UNION { [1..k -> S] : k \in 0..n }

\* The task lists one page of the remote's answer can carry: up to MaxPageLen
\* distinct tasks in the remote's order (a later page may repeat a task).
Pages ==
    { Listing(I) : I \in { J \in SUBSET DOMAIN RemoteTasks : Cardinality(J) <= MaxPageLen } }

\* What one GET team/{id}/task can produce: an HTTP/transport failure, or a
\* JSON body whose "tasks" and "last_page" keys may each be missing.
Responses ==
    { [ok |-> FALSE, tasks |-> None, last_page |-> None] }
    \cup [ok : {TRUE}, tasks : {None} \cup { Some(p) : p \in Pages },
          last_page : {None, Some(TRUE), Some(FALSE)}]

(* --------------------------- status filters ---------------------------- *)

\* task.get("status", {}).get("type", "")
StatusType(task) == task.status.type

\* task.get("status", {}).get("status", "").lower()
StatusName(task) == Lower(task.status.status)

SeqToSet(s) == { s[i] : i \in DOMAIN s }

\* get_user_tasks: status_filter is one string (or None); "completed", "done"
\* and "closed" are synonyms, "open" selects by status type, any other
\* string selects nothing.
KeepAnalyzer(task, f) ==
    IF f \in {"completed", "done", "closed"}
    THEN StatusType(task) = "closed"
         \/ StatusName(task) \in {"complete", "completed", "done", "closed"}
    ELSE IF f = "open" THEN StatusType(task) = "open"
    ELSE FALSE

\* Mutant: the closed-type override dropped.
KeepByList_LabelOnly(task, f) ==
    StatusName(task) \in { Lower(f[i]) : i \in DOMAIN f }

\* Mutant: the filter entries compared without lower-casing them.
KeepByList_CaseSensitive(task, f) ==
    StatusType(task) = "closed"
    \/ StatusName(task) \in { f[i] : i \in DOMAIN f }

\* main.py and fetch_clickup_data: status_filter is a list of labels.
KeepByList(task, f) ==
    StatusType(task) = "closed"
    \/ StatusName(task) \in { Lower(f[i]) : i \in DOMAIN f }

\* Mutant: the test against the "all" filter dropped.
FilterApplies_IgnoresAll(p, f) ==
    CASE p = "get_user_tasks"     -> f # None
      [] p = "main"               -> f # <<>>
      [] p = "fetch_clickup_data" -> f # <<>>

\* Whether the status filter is applied at all on this path.
FilterApplies(p, f) ==
    CASE p = "get_user_tasks"     -> f # None
      [] p = "main"               -> f # <<>> /\ f # <<"all">>
      [] p = "fetch_clickup_data" -> f # <<>> /\ "all" \notin SeqToSet(f)

\* Whether the path's filter keeps the task.
Keeps(p, f, task) ==
    IF ~FilterApplies(p, f) THEN TRUE
    ELSE IF p = "get_user_tasks" THEN KeepAnalyzer(task, Val(f))
    ELSE KeepByList(task, f)

\* The page after the client-side status filter, in page order.
FilterPage(p, f, tasks) ==
    LET keep(t) == Keeps(p, f, t) IN SelectSeq(tasks, keep)

\* argparse choices of --status, and the None that "all" is mapped to.
CliStatusChoices == {"completed", "done", "closed", "open", "all"}

CliStatusFilter(choice) == IF choice = "all" THEN None ELSE Some(choice)

\* STATUS_FILTER of main.py as shipped and as it may be configured.
MainStatusFilters ==
    { <<"completed", "done", "closed">>, <<"all">>, <<>>, <<"Open">>,
      <<"completed">> }

\* Selections of the dashboard's multiselect (in option order).
StreamlitStatusFilters ==
    { <<"completed", "done", "closed">>, <<"all">>, <<>>, <<"open">>,
      <<"open", "all">> }

Paths == {"get_user_tasks", "main", "fetch_clickup_data"}

StatusFilters(p) ==
    CASE p = "get_user_tasks"     -> { CliStatusFilter(c) : c \in CliStatusChoices }
      [] p = "main"               -> MainStatusFilters
      [] p = "fetch_clickup_data" -> StreamlitStatusFilters

(* ----------------------------- aggregator ------------------------------ *)

\* Inexact ties of round(ms / 3600000, 2): ms = 36000*q + 18000 whose hour
\* value (2q+1)/200 is not a binary fraction; the nearest double lies above
\* the tie for these q and below it for the others tabulated.
TieRoundsUp   == {0, 2, 3, 5, 6, 8, 9, 11}
TieRoundsDown == {1, 4, 7, 10}

\* Mutant: round(hours, 1) instead of round(hours, 2).
RoundHours_OneDecimal(ms) == 10 * ((ms + 180000) \div 360000)

\* round(ms / (1000 * 60 * 60), 2), in hundredths of an hour.  An exact tie
\* (the hour value is a multiple of 1/8) goes to the even neighbour.
RoundHours(ms) ==
    LET q == ms \div 36000
        r == ms % 36000
    IN  CASE 2 * r < 36000 -> q
          [] 2 * r > 36000 -> q + 1
          [] 2 * r = 36000 /\ (2 * q + 1) % 25 = 0 -> IF q % 2 = 0 THEN q ELSE q + 1
          [] 2 * r = 36000 /\ (2 * q + 1) % 25 # 0 /\ q \in TieRoundsUp -> q + 1
          [] 2 * r = 36000 /\ (2 * q + 1) % 25 # 0 /\ q \in TieRoundsDown -> q

\* Mutant: the date priority reversed (date_updated or date_closed or date_done).
TaskDate_UpdatedFirst(task) ==
    LET date_done    == timestamp_to_datetime(task.date_done)
        date_closed  == timestamp_to_datetime(task.date_closed)
        date_updated == timestamp_to_datetime(task.date_updated)
    IN  IF date_updated # None THEN date_updated
        ELSE IF date_closed # None THEN date_closed
        ELSE date_done

\* task_date = date_done or date_closed or date_updated
TaskDate(task) ==
    LET date_done    == timestamp_to_datetime(task.date_done)
        date_closed  == timestamp_to_datetime(task.date_closed)
        date_updated == timestamp_to_datetime(task.date_updated)
    IN  IF date_done # None THEN date_done
        ELSE IF date_closed # None THEN date_closed
        ELSE date_updated

\* Mutant: "time_estimate is not None" instead of the truthiness test.
HasEstimate_NotNone(task) == task.time_estimate # None

\* time_estimate and time_estimate > 0
HasEstimate(task) ==
    /\ task.time_estimate # None
    /\ Val(task.time_estimate) # 0
    /\ Val(task.time_estimate) > 0

\* daily_estimates[key] += ms on a defaultdict(int)
AddTo(daily, key, ms) ==
    IF key \in DOMAIN daily
    THEN [daily EXCEPT ![key] = @ + ms]
    ELSE [k \in DOMAIN daily \cup {key} |-> IF k = key THEN ms ELSE daily[k]]

\* Mutant: the else branch narrowed to "elif time_estimate is None", so a
\* task with estimate 0 is counted on neither side.
AggregateTask_ZeroUncounted(acc, task) ==
    IF HasEstimate(task)
    THEN LET time_estimate == Val(task.time_estimate)
             task_date     == TaskDate(task)
         IN  [acc EXCEPT
                !.tasks_with_estimates = @ + 1,
                !.total_estimate = @ + time_estimate,
                !.daily_estimates =
                    IF task_date # None
                    THEN AddTo(@, DateStr(Val(task_date)), time_estimate)
                    ELSE @]
    ELSE IF task.time_estimate = None
    THEN [acc EXCEPT !.tasks_without_estimates = @ + 1]
    ELSE acc

\* Mutant: an estimated task without any date skipped altogether.
AggregateTask_UndatedSkipped(acc, task) ==
    IF HasEstimate(task)
    THEN LET time_estimate == Val(task.time_estimate)
             task_date     == TaskDate(task)
         IN  IF task_date # None
             THEN [acc EXCEPT
                     !.tasks_with_estimates = @ + 1,
                     !.total_estimate = @ + time_estimate,
                     !.daily_estimates =
                         AddTo(@, DateStr(Val(task_date)), time_estimate)]
             ELSE acc
    ELSE [acc EXCEPT !.tasks_without_estimates = @ + 1]

\* Mutant: the day's entry of the defaultdict read for every dated task, so
\* an unestimated task leaves a key with 0.
AggregateTask_TouchesBucket(acc, task) ==
    IF HasEstimate(task)
    THEN LET time_estimate == Val(task.time_estimate)
             task_date     == TaskDate(task)
         IN  [acc EXCEPT
                !.tasks_with_estimates = @ + 1,
                !.total_estimate = @ + time_estimate,
                !.daily_estimates =
                    IF task_date # None
                    THEN AddTo(@, DateStr(Val(task_date)), time_estimate)
                    ELSE @]
    ELSE [acc EXCEPT
            !.tasks_without_estimates = @ + 1,
            !.daily_estimates =
                IF TaskDate(task) # None
                THEN AddTo(@, DateStr(Val(TaskDate(task))), 0)
                ELSE @]

\* One iteration of the loop over tasks.
AggregateTask(acc, task) ==
    IF HasEstimate(task)
    THEN LET time_estimate == Val(task.time_estimate)
             task_date     == TaskDate(task)
         IN  [acc EXCEPT
                !.tasks_with_estimates = @ + 1,
                !.total_estimate = @ + time_estimate,
                !.daily_estimates =
                    IF task_date # None
                    THEN AddTo(@, DateStr(Val(task_date)), time_estimate)
                    ELSE @]
    ELSE [acc EXCEPT !.tasks_without_estimates = @ + 1]

EmptyDict == [k \in {} |-> 0]

RECURSIVE AggregateLoop(_, _)
AggregateLoop(acc, tasks) ==
    IF tasks = <<>> THEN acc
    ELSE AggregateLoop(AggregateTask(acc, Head(tasks)), Tail(tasks))

\* Mutant: tasks_without_estimates initialised to 1.
Accumulate_CounterStartsAtOne(tasks) ==
    AggregateLoop([daily_estimates |-> EmptyDict, total_estimate |-> 0,
                   tasks_with_estimates |-> 0,
                   tasks_without_estimates |-> 1], tasks)

\* The accumulators (daily_estimates in milliseconds, total_estimate and the
\* two counters) after the loop over tasks.
Accumulate(tasks) ==
    AggregateLoop([daily_estimates |-> EmptyDict, total_estimate |-> 0,
                   tasks_with_estimates |-> 0,
                   tasks_without_estimates |-> 0], tasks)

\* date1 <= date2 on <<year, month, day>>.
DateLeq(a, b) ==
    \/ a[1] < b[1]
    \/ a[1] = b[1] /\ a[2] < b[2]
    \/ a[1] = b[1] /\ a[2] = b[2] /\ a[3] <= b[3]

\* The sum of the values of a dictionary.
RECURSIVE DictTotal(_)
DictTotal(d) ==
    IF DOMAIN d = {} THEN 0
    ELSE LET k == CHOOSE x \in DOMAIN d : TRUE
         IN  d[k] + DictTotal([x \in DOMAIN d \ {k} |-> d[x]])

\* Mutant: days outside [from.date(), to.date()] dropped from the breakdown.
calculate_time_estimates_Clamped(tasks, from, to) ==
    LET acc  == Accumulate(tasks)
        kept == { k \in DOMAIN acc.daily_estimates :
                    DateLeq(DateStr(from), k) /\ DateLeq(k, DateStr(to)) }
    IN  [total_estimate_ms       |-> acc.total_estimate,
         total_estimate_hours    |-> RoundHours(acc.total_estimate),
         daily_breakdown         |-> [k \in kept |-> RoundHours(acc.daily_estimates[k])],
         tasks_with_estimates    |-> acc.tasks_with_estimates,
         tasks_without_estimates |-> acc.tasks_without_estimates,
         total_tasks             |-> Len(tasks)]

\* Mutant: the total in hours obtained by summing the rounded days.
calculate_time_estimates_SumsRoundedDays(tasks, from, to) ==
    LET acc   == Accumulate(tasks)
        daily == [k \in DOMAIN acc.daily_estimates |->
                    RoundHours(acc.daily_estimates[k])]
    IN  [total_estimate_ms       |-> acc.total_estimate,
         total_estimate_hours    |-> DictTotal(daily),
         daily_breakdown         |-> daily,
         tasks_with_estimates    |-> acc.tasks_with_estimates,
         tasks_without_estimates |-> acc.tasks_without_estimates,
         total_tasks             |-> Len(tasks)]

\* UserTaskAnalyzer.calculate_time_estimates; hours are in hundredths.
calculate_time_estimates(tasks, from, to) ==
    LET acc == Accumulate(tasks)
    IN  [total_estimate_ms       |-> acc.total_estimate,
         total_estimate_hours    |-> RoundHours(acc.total_estimate),
         daily_breakdown         |-> [k \in DOMAIN acc.daily_estimates |->
                                        RoundHours(acc.daily_estimates[k])],
         tasks_with_estimates    |-> acc.tasks_with_estimates,
         tasks_without_estimates |-> acc.tasks_without_estimates,
         total_tasks             |-> Len(tasks)]

(* ------------------------------- state --------------------------------- *)

VARIABLES
    path,           \* which pagination loop runs: get_user_tasks, main, fetch_clickup_data
    status_filter,  \* its status filter (an optional string, or a list of labels)
    user_id,        \* the resolved assignee
    from_date,      \* window start (datetime)
    to_date,        \* window end (datetime)
    pc,             \* position: "fetch", "enrich", "aggregate", "report", "done"
    page,           \* the loop's page counter
    all_tasks,      \* the accumulated task list
    requests,       \* the task-list requests sent so far (their query parameters)
    responses,      \* what the remote answered to each of them
    enrichment,     \* per position of all_tasks: the comments/time_entries attached
    enrich_log,     \* the sleeps and requests of the enrichment pass, in order
    outage,         \* the enrichment requests <<op, task id>> the remote fails
    returned,       \* the task list handed back to the caller, if any
    outcome,        \* "running", "ok" (normal return) or "error" (exception / status 1)
    time_analysis,  \* the result of calculate_time_estimates, if computed
    api_key,        \* the api_key argument of UserTaskAnalyzer(...)
    env_api_key,    \* os.getenv("CLICKUP_API_KEY")
    analyzer,       \* the constructed UserTaskAnalyzer, if any
    partial_name,   \* the query of find_user_by_partial_name
    team_id,        \* its team_id argument
    resolver_pc,    \* "construct", "resolve" or "done"
    sent,           \* the team and roster requests sent, with their answers
    matched_users,  \* the roster members that matched, in roster order
    selected_user,  \* the user find_user_by_partial_name returned, if any
    resolve_outcome,\* "running", "returned", or the error raised
    current_date,   \* the loop variable of the day enumeration (a day ordinal)
    all_days,       \* the all_days dictionary: date -> hours, tasks, weekend flags
    day_block,      \* the day-by-day lines written to the output buffer, if any
    llm,            \* what the generate-content call did, "none" before it
    ai_analysis,    \* what analyze_clickup_data returned, if anything
    files           \* the output files written, with their contents

fetchVars == <<path, status_filter, user_id, from_date, to_date, pc, page,
               all_tasks, requests, responses, enrichment, enrich_log, outage,
               returned, outcome, time_analysis>>

resolverVars == <<api_key, env_api_key, analyzer, partial_name, team_id,
                  resolver_pc, sent, matched_users, selected_user,
                  resolve_outcome>>

reportVars == <<current_date, all_days, day_block, llm, ai_analysis, files>>

vars == <<fetchVars, resolverVars, reportVars>>

\* The report phase has not begun: nothing enumerated, analysed or written.
ReportIdle ==
    /\ current_date = None
    /\ all_days = [k \in {} |-> 0]
    /\ day_block = None
    /\ llm = "none"
    /\ ai_analysis = None
    /\ files = {}

\* The resolution phase is over: an analyzer exists and the assignee is known.
ResolverDone ==
    /\ api_key = None
    /\ env_api_key = Some("k2")
    /\ analyzer = Some([api_key |-> "k2"])
    /\ partial_name = <<>>
    /\ team_id = Some("T1")
    /\ resolver_pc = "done"
    /\ sent = <<>>
    /\ matched_users = <<>>
    /\ selected_user = None
    /\ resolve_outcome = "returned"

Users == {"u1"}

\* Date windows [from, to] the entry points pass on.
Windows ==
    { [from |-> [sec |-> 0, micro |-> 1500],
       to   |-> [sec |-> 172800, micro |-> 999999]],
      [from |-> [sec |-> 86400, micro |-> 0],
       to   |-> [sec |-> 259200, micro |-> 0]] }

\* Which of GET task/{id}/comment and GET task/{id}/time fail during one run:
\* none, both requests of t1, the comments of t3, the time entries of t3.
Outages ==
    { {}, {<<"comment", "t1">>, <<"time", "t1">>}, {<<"comment", "t3">>},
      {<<"time", "t3">>} }

\* State at the top of the pagination loop: all_tasks = [], page = 0.
Init ==
    /\ path \in Paths
    /\ status_filter \in StatusFilters(path)
    /\ user_id \in Users
    /\ \E w \in Windows : from_date = w.from /\ to_date = w.to
    /\ pc = "fetch"
    /\ page = 0
    /\ all_tasks = <<>>
    /\ requests = <<>>
    /\ responses = <<>>
    /\ enrichment = <<>>
    /\ enrich_log = <<>>
    /\ outage \in (IF path = "get_user_tasks" THEN Outages ELSE {{}})
    /\ returned = None
    /\ outcome = "running"
    /\ time_analysis = None
    /\ ResolverDone
    /\ ReportIdle

(* ------------------------------ pagination ----------------------------- *)

\* The query parameters of one task-list request.
Params(p) ==
    [assignees       |-> <<user_id>>,
     include_closed  |-> "true",
     page            |-> p,
     date_updated_gt |-> datetime_to_timestamp(from_date),
     date_updated_lt |-> datetime_to_timestamp(to_date),
     subtasks        |-> "true"]

\* response.get("tasks", [])
TasksOf(resp) == IF resp.tasks = None THEN <<>> ELSE Val(resp.tasks)

\* Mutant: response.get("last_page", False).
LastPageOf_DefaultFalse(resp) == IF resp.last_page = None THEN FALSE ELSE Val(resp.last_page)

\* response.get("last_page", True)
LastPageOf(resp) == IF resp.last_page = None THEN TRUE ELSE Val(resp.last_page)

\* Only get_user_tasks wraps the request in try/except; in main.py and
\* fetch_clickup_data the exception leaves the loop and the function.
Propagates(p, resp) == ~resp.ok /\ p # "get_user_tasks"

\* Mutant: the "if not tasks: break" test dropped.
Breaks_OnLastPageOnly(resp) == ~resp.ok \/ LastPageOf(resp)

\* The loop is left: request failed, no tasks, or last page.
Breaks(resp) == ~resp.ok \/ TasksOf(resp) = <<>> \/ LastPageOf(resp)

\* Mutant: the increment forgotten.
NextPage_Stuck(p) == p

\* page += 1
NextPage(p) == p + 1

\* Where control goes when the loop is left normally with the list acc.
AfterLoopPc(p, acc) ==
    CASE p = "get_user_tasks"     -> "enrich"
      [] p = "main"               -> IF acc = <<>> THEN "done" ELSE "aggregate"
      [] p = "fetch_clickup_data" -> "aggregate"

\* Mutant: the emptiness test moved after the status filter
\* ("if not filtered_tasks: break").
FetchPage_StopsOnFilteredEmpty ==
    /\ pc = "fetch"
    /\ page < MaxPages
    /\ \E resp \in Responses :
          LET kept  == FilterPage(path, status_filter, TasksOf(resp))
              acc   == IF ~resp.ok THEN all_tasks ELSE all_tasks \o kept
              stop  == ~resp.ok \/ kept = <<>> \/ LastPageOf(resp)
          IN  /\ requests' = Append(requests, Params(page))
              /\ responses' = Append(responses, resp)
              /\ all_tasks' = acc
              /\ page' = IF stop THEN page ELSE NextPage(page)
              /\ pc' = IF Propagates(path, resp) THEN "done"
                       ELSE IF stop THEN AfterLoopPc(path, acc)
                       ELSE "fetch"
              /\ outcome' = IF Propagates(path, resp) THEN "error"
                            ELSE IF stop /\ path = "main" /\ acc = <<>> THEN "ok"
                            ELSE outcome
    /\ UNCHANGED <<path, status_filter, user_id, from_date, to_date,
                   enrichment, enrich_log, outage, returned, time_analysis>>
    /\ UNCHANGED resolverVars
    /\ UNCHANGED reportVars

\* One iteration of the while True loop: request page `page`, stop on an
\* empty page, filter, accumulate, stop on last_page, else advance.
FetchPage ==
    /\ pc = "fetch"
    /\ page < MaxPages
    /\ \E resp \in Responses :
          LET tasks == TasksOf(resp)
              acc   == IF ~resp.ok \/ tasks = <<>> THEN all_tasks
                       ELSE all_tasks \o FilterPage(path, status_filter, tasks)
          IN  /\ requests' = Append(requests, Params(page))
              /\ responses' = Append(responses, resp)
              /\ all_tasks' = acc
              /\ page' = IF Breaks(resp) THEN page ELSE NextPage(page)
              /\ pc' = IF Propagates(path, resp) THEN "done"
                       ELSE IF Breaks(resp) THEN AfterLoopPc(path, acc)
                       ELSE "fetch"
              /\ outcome' = IF Propagates(path, resp) THEN "error"
                            ELSE IF Breaks(resp) /\ path = "main" /\ acc = <<>> THEN "ok"
                            ELSE outcome
    /\ UNCHANGED <<path, status_filter, user_id, from_date, to_date,
                   enrichment, enrich_log, outage, returned, time_analysis>>
    /\ UNCHANGED resolverVars
    /\ UNCHANGED reportVars

(* ------------------------------ enrichment ----------------------------- *)

\* What GET task/{id}/comment and GET task/{id}/time hold for a task.
RemoteComments(id) == IF id = "t1" THEN <<"c1">> ELSE <<>>

RemoteTimeEntries(id) == IF id = "t3" THEN <<[duration |-> 60000]>> ELSE <<>>

\* get_task_comments: the "comments" of the answer, [] when the request fails.
get_task_comments(task_id, ok) ==
    IF ok THEN RemoteComments(task_id) ELSE <<>>

\* get_task_time_tracking: the answer, {"data": []} when the request fails.
get_task_time_tracking(task_id, ok) ==
    IF ok THEN [data |-> RemoteTimeEntries(task_id)] ELSE [data |-> <<>>]

\* Mutant: one try around both requests, so a failed comments request also
\* leaves time_entries empty.
EnrichedFields_SharedTry(task_id, comments_ok, time_ok) ==
    LET comments      == get_task_comments(task_id, comments_ok)
        time_tracking == get_task_time_tracking(task_id, comments_ok /\ time_ok)
    IN  [comments |-> comments,
         comment_count |-> Len(comments),
         time_entries |-> time_tracking.data]

\* The fields the loop body attaches to a task.
EnrichedFields(task_id, comments_ok, time_ok) ==
    LET comments      == get_task_comments(task_id, comments_ok)
        time_tracking == get_task_time_tracking(task_id, time_ok)
    IN  [comments |-> comments,
         comment_count |-> Len(comments),
         time_entries |-> time_tracking.data]

\* time.sleep(tenths / 10)
Sleep(tenths) == [op |-> "sleep", tenths |-> tenths, task_id |-> "", ok |-> TRUE]

\* One GET task/{task_id}/{op} and whether it succeeded.
Request(op, task_id, ok) == [op |-> op, tenths |-> 0, task_id |-> task_id, ok |-> ok]

\* Mutant: the second time.sleep(0.3) dropped.
EnrichSteps_OneDelay(task_id, comments_ok, time_ok) ==
    << Sleep(3), Request("comment", task_id, comments_ok),
       Request("time", task_id, time_ok) >>

\* What the loop body does for one task, in order.
EnrichSteps(task_id, comments_ok, time_ok) ==
    << Sleep(3), Request("comment", task_id, comments_ok),
       Sleep(3), Request("time", task_id, time_ok) >>

\* One iteration of the enrichment loop of get_user_tasks: get_task_comments
\* and get_task_time_tracking each swallow a failed request; which requests
\* fail is the remote's doing (outage).
EnrichTask ==
    /\ pc = "enrich"
    /\ Len(enrichment) < Len(all_tasks)
    /\ LET task_id     == all_tasks[Len(enrichment) + 1].id
           comments_ok == <<"comment", task_id>> \notin outage
           time_ok     == <<"time", task_id>> \notin outage
       IN  /\ enrichment' = Append(enrichment,
                                   EnrichedFields(task_id, comments_ok, time_ok))
           /\ enrich_log' = enrich_log \o EnrichSteps(task_id, comments_ok, time_ok)
    /\ UNCHANGED <<path, status_filter, user_id, from_date, to_date, pc, page,
                   all_tasks, requests, responses, outage, returned, outcome,
                   time_analysis>>
    /\ UNCHANGED resolverVars
    /\ UNCHANGED reportVars

\* return all_tasks, once every task is enriched.
ReturnTasks ==
    /\ pc = "enrich"
    /\ Len(enrichment) = Len(all_tasks)
    /\ returned' = Some(all_tasks)
    /\ pc' = "aggregate"
    /\ UNCHANGED <<path, status_filter, user_id, from_date, to_date, page,
                   all_tasks, requests, responses, enrichment, enrich_log, outage,
                   outcome, time_analysis>>
    /\ UNCHANGED resolverVars
    /\ UNCHANGED reportVars

(* ------------------------------ aggregation ---------------------------- *)

\* time_analysis = calculate_time_estimates(all_tasks, from_date, to_date);
\* fetch_clickup_data then returns its data, the two main()s go on to report.
Aggregate ==
    /\ pc = "aggregate"
    /\ time_analysis' = Some(calculate_time_estimates(all_tasks, from_date, to_date))
    /\ IF path = "fetch_clickup_data"
       THEN pc' = "done" /\ outcome' = "ok" /\ returned' = Some(all_tasks)
       ELSE pc' = "report" /\ UNCHANGED <<outcome, returned>>
    /\ UNCHANGED <<path, status_filter, user_id, from_date, to_date, page,
                   all_tasks, requests, responses, enrichment, enrich_log, outage>>
    /\ UNCHANGED resolverVars
    /\ UNCHANGED reportVars

Next == FetchPage \/ EnrichTask \/ ReturnTasks \/ Aggregate

Spec == Init /\ [][Next]_vars

(* -------------------- the aggregator on arbitrary lists ---------------- *)

TsDay1Noon == <<1,2,9,6,0,0,0,0,0>>     \* 1970-01-02 12:00:00.000

\* Task shapes handed to the aggregator.
AggTasks ==
    { Task("t", "closed", "done", est, done, closed, updated) :
        est \in {None, Some(0), Some(450000), Some(3600000)},
        done \in {None, Some(TsDay3)},
        closed \in {None, Some(TsDay1)},
        updated \in {None, Some(TsDay0Late), Some(TsDay1Noon)} }

\* fetch_clickup_data about to aggregate a task list it has accumulated.
InitAgg ==
    /\ path = "fetch_clickup_data"
    /\ status_filter = <<>>
    /\ user_id \in Users
    /\ \E w \in Windows : from_date = w.from /\ to_date = w.to
    /\ pc = "aggregate"
    /\ page = 0
    /\ all_tasks \in SeqsUpTo(AggTasks, MaxTasks)
    /\ requests = <<>>
    /\ responses = <<>>
    /\ enrichment = <<>>
    /\ enrich_log = <<>>
    /\ outage = {}
    /\ returned = None
    /\ outcome = "running"
    /\ time_analysis = None
    /\ ResolverDone
    /\ ReportIdle

NextAgg == Aggregate

SpecAgg == InitAgg /\ [][NextAgg]_vars

\* Task shapes for the conversion to hours: one eighth of an hour, one hour,
\* one and a half hours or no estimate, dated by date_updated alone.
HourTasks ==
    { Task("t", "closed", "done", est, None, None, updated) :
        est \in {None, Some(450000), Some(3600000), Some(5400000)},
        updated \in {None, Some(TsDay0Late), Some(TsDay1Noon), Some(TsDay3)} }

\* fetch_clickup_data about to aggregate such a list.
InitHours ==
    /\ path = "fetch_clickup_data"
    /\ status_filter = <<>>
    /\ user_id \in Users
    /\ \E w \in Windows : from_date = w.from /\ to_date = w.to
    /\ pc = "aggregate"
    /\ page = 0
    /\ all_tasks \in SeqsUpTo(HourTasks, MaxTasks)
    /\ requests = <<>>
    /\ responses = <<>>
    /\ enrichment = <<>>
    /\ enrich_log = <<>>
    /\ outage = {}
    /\ returned = None
    /\ outcome = "running"
    /\ time_analysis = None
    /\ ResolverDone
    /\ ReportIdle

NextHours == Aggregate

SpecHours == InitHours /\ [][NextHours]_vars

(* ---------------------------- user resolution -------------------------- *)

\* str.lower() on the characters that occur in names, emails and queries;
\* these strings are sequences of characters.
LowerChar(c) ==
    CASE c = "A" -> "a"
      [] c = "D" -> "d"
      [] c = "N" -> "n"
      [] OTHER   -> c

LowerStr(str) == [i \in DOMAIN str |-> LowerChar(str[i])]

\* sub in str
Contains(sub, str) ==
    \E k \in 0..(Len(str) - Len(sub)) : SubSeq(str, k + 1, k + Len(sub)) = sub

\* "not x" for an optional string: None and "" are falsy.
Falsy(o) == o = None \/ Val(o) = ""

\* Mutant: "is None" instead of the truthiness test.
KeyMissing_NoneOnly(key) == key = None

\* not self.api_key
KeyMissing(key) == Falsy(key)

\* api_key or os.getenv("CLICKUP_API_KEY")
EffectiveKey(arg, env) == IF Falsy(arg) THEN env ELSE arg

Keys == {None, Some(""), Some("k1")}

EnvKeys == {None, Some(""), Some("k2")}

\* UserTaskAnalyzer.__init__
Construct ==
    /\ resolver_pc = "construct"
    /\ LET key == EffectiveKey(api_key, env_api_key)
       IN  IF KeyMissing(key)
           THEN /\ analyzer' = None
                /\ resolve_outcome' = "ValueError: ClickUp API key is required"
                /\ resolver_pc' = "done"
           ELSE /\ analyzer' = Some([api_key |-> Val(key)])
                /\ resolve_outcome' = resolve_outcome
                /\ resolver_pc' = "resolve"
    /\ UNCHANGED <<api_key, env_api_key, partial_name, team_id, sent,
                   matched_users, selected_user>>
    /\ UNCHANGED fetchVars
    /\ UNCHANGED reportVars

\* The roster the remote holds, and the teams of the key's owner.
UserAna == [id |-> "u1", username |-> <<"A", "n", "a">>, email |-> <<"a", "@", "x">>]

UserDan == [id |-> "u2", username |-> <<"D", "a", "n">>, email |-> <<"d", "@", "x">>]

Rosters ==
    { <<>>, <<[user |-> UserAna], [user |-> UserDan]>>,
      <<[user |-> UserDan], [user |-> UserAna]>>, <<[user |-> UserDan]>> }

TeamLists ==
    { <<>>, <<[id |-> "T1", name |-> "one"]>>,
      <<[id |-> "T2", name |-> "two"], [id |-> "T1", name |-> "one"]>> }

\* What a GET can produce: a failure, or a body whose list may be missing.
Answers(lists) ==
    { [ok |-> FALSE, list |-> None] }
    \cup [ok : {TRUE}, list : {None} \cup { Some(l) : l \in lists }]

\* response.get("teams", []) and response.get("team", {}).get("members", [])
ListOf(resp) == IF resp.list = None THEN <<>> ELSE Val(resp.list)

Queries ==
    { <<"a", "n">>, <<"A", "N">>, <<"d", "@">>, <<"z">>, <<>>, <<"N", "a">> }

TeamIds == {None, Some(""), Some("T9")}

\* One request as _make_request sends it, with the answer it got.
Sent(endpoint, key, resp) ==
    [endpoint |-> endpoint, authorization |-> key, response |-> resp]

\* if not team_id
NeedsTeamLookup(tid) == Falsy(tid)

\* Mutant: the last team of the list instead of the first.
PickTeam_Last(teams) == teams[Len(teams)].id

\* teams[0]["id"]
PickTeam(teams) == teams[1].id

\* partial_lower in username.lower() or partial_lower in email.lower()
Matches(name, member) ==
    \/ Contains(LowerStr(name), LowerStr(member.user.username))
    \/ Contains(LowerStr(name), LowerStr(member.user.email))

\* matched_users, in roster order.
MatchedUsers(name, members) ==
    LET hit(m) == Matches(name, m)
        hits   == SelectSeq(members, hit)
    IN  [i \in DOMAIN hits |-> hits[i].user]

\* Mutant: no match raises instead of returning None.
ReturnValue_RaisesOnEmpty(matched) ==
    IF matched = <<>> THEN [outcome |-> "LookupError: user not found", user |-> None]
    ELSE [outcome |-> "returned", user |-> Some(matched[1])]

\* Mutant: the last match instead of the first.
ReturnValue_LastMatch(matched) ==
    IF matched = <<>> THEN [outcome |-> "returned", user |-> None]
    ELSE [outcome |-> "returned", user |-> Some(matched[Len(matched)])]

\* return None when nothing matched, else matched_users[0].
ReturnValue(matched) ==
    IF matched = <<>> THEN [outcome |-> "returned", user |-> None]
    ELSE [outcome |-> "returned", user |-> Some(matched[1])]

\* The roster request for team tid and what follows it.
RosterStep(name, tid, key, log, roster_resp) ==
    LET log2 == Append(log, Sent(<<"team", tid>>, key, roster_resp))
    IN  IF ~roster_resp.ok
        THEN [sent |-> log2, matched |-> <<>>, user |-> None,
              outcome |-> "RequestException"]
        ELSE LET matched == MatchedUsers(name, ListOf(roster_resp))
                 ret     == ReturnValue(matched)
             IN  [sent |-> log2, matched |-> matched, user |-> ret.user,
                  outcome |-> ret.outcome]

\* UserTaskAnalyzer.find_user_by_partial_name, given the answers the remote
\* gives to the team-list and roster requests if they are sent.
find_user_by_partial_name(name, tid, key, teams_resp, roster_resp) ==
    IF NeedsTeamLookup(tid)
    THEN LET log == <<Sent(<<"team">>, key, teams_resp)>>
         IN  IF ~teams_resp.ok
             THEN [sent |-> log, matched |-> <<>>, user |-> None,
                   outcome |-> "RequestException"]
             ELSE IF ListOf(teams_resp) = <<>>
             THEN [sent |-> log, matched |-> <<>>, user |-> None,
                   outcome |-> "ValueError: No teams found for this API key"]
             ELSE RosterStep(name, PickTeam(ListOf(teams_resp)), key, log, roster_resp)
    ELSE RosterStep(name, Val(tid), key, <<>>, roster_resp)

FindUser ==
    /\ resolver_pc = "resolve"
    /\ \E teams_resp \in Answers(TeamLists), roster_resp \in Answers(Rosters) :
          LET r == find_user_by_partial_name(partial_name, team_id,
                                             Val(analyzer).api_key,
                                             teams_resp, roster_resp)
          IN  /\ sent' = r.sent
              /\ matched_users' = r.matched
              /\ selected_user' = r.user
              /\ resolve_outcome' = r.outcome
    /\ resolver_pc' = "done"
    /\ UNCHANGED <<api_key, env_api_key, analyzer, partial_name, team_id>>
    /\ UNCHANGED fetchVars
    /\ UNCHANGED reportVars

\* Before UserTaskAnalyzer(...) is constructed; no fetch has begun.
InitResolve ==
    /\ api_key \in Keys
    /\ env_api_key \in EnvKeys
    /\ analyzer = None
    /\ partial_name \in Queries
    /\ team_id \in TeamIds
    /\ resolver_pc = "construct"
    /\ sent = <<>>
    /\ matched_users = <<>>
    /\ selected_user = None
    /\ resolve_outcome = "running"
    /\ path = "get_user_tasks"
    /\ status_filter = None
    /\ user_id \in Users
    /\ \E w \in Windows : from_date = w.from /\ to_date = w.to
    /\ pc = "start"
    /\ page = 0
    /\ all_tasks = <<>>
    /\ requests = <<>>
    /\ responses = <<>>
    /\ enrichment = <<>>
    /\ enrich_log = <<>>
    /\ outage = {}
    /\ returned = None
    /\ outcome = "running"
    /\ time_analysis = None
    /\ ReportIdle

NextResolve == Construct \/ FindUser

SpecResolve == InitResolve /\ [][NextResolve]_vars

(* ------------------------------ the report ----------------------------- *)

\* datetime.date() as a day ordinal: whole days since 1970-01-01 (UTC).
DayOf(dt) == dt.sec \div 86400

\* str(current_date)
DateOfDay(n) == CivilFromDays(n)

\* date.weekday(): Monday is 0 and Sunday is 6; day 0 was a Thursday.
Weekday(n) == (n + 3) % 7

\* Mutant: the Saturday/Sunday convention.
IsWeekend_SatSun(day_of_week) == day_of_week \in {5, 6}

\* is_weekend = day_of_week in [4, 5]
IsWeekend(day_of_week) == day_of_week \in {4, 5}

\* weekend_day = "Friday" if day_of_week == 4 else "Saturday" if
\* day_of_week == 5 else None
WeekendDay(day_of_week) ==
    IF day_of_week = 4 THEN Some("Friday")
    ELSE IF day_of_week = 5 THEN Some("Saturday")
    ELSE None

\* time_analysis['daily_breakdown'].get(date_str, 0)
HoursOn(analysis, date_str) ==
    IF date_str \in DOMAIN analysis.daily_breakdown
    THEN analysis.daily_breakdown[date_str]
    ELSE 0

\* day_tasks: the tasks whose resolved date prints as date_str.
DayTasks(tasks, date_str) ==
    LET on_day(task) == /\ TaskDate(task) # None
                        /\ DateStr(Val(TaskDate(task))) = date_str
    IN  SelectSeq(tasks, on_day)

\* The value stored under all_days[date_str].
DayEntry(n, analysis, tasks) ==
    [hours       |-> HoursOn(analysis, DateOfDay(n)),
     tasks       |-> DayTasks(tasks, DateOfDay(n)),
     is_weekend  |-> IsWeekend(Weekday(n)),
     weekend_day |-> WeekendDay(Weekday(n))]

\* Mutant: "while current_date < to_date.date()".
LoopContinues_Exclusive(current, last) == current < last

\* while current_date <= to_date.date()
LoopContinues(current, last) == current <= last

\* current_date += timedelta(days=1)
NextDay(n) == n + 1

\* sorted(all_days.keys())
RECURSIVE SortedKeys(_)
SortedKeys(keys) ==
    IF keys = {} THEN <<>>
    ELSE LET first == CHOOSE k \in keys : \A other \in keys : DateLeq(k, other)
         IN  <<first>> \o SortedKeys(keys \ {first})

\* One "{date_str}{weekend_marker}: Total {hours} hours ({n} tasks)" line.
DayLine(date_str, day_data) ==
    [date           |-> date_str,
     weekend_marker |-> IF day_data.is_weekend THEN day_data.weekend_day ELSE None,
     hours          |-> day_data.hours,
     tasks          |-> Len(day_data.tasks)]

\* current_date = from_date.date(); all_days = {}: the report layer starts,
\* in main() after the aggregation, in create_structured_output(data) on
\* the data fetch_clickup_data returned.
StartDays ==
    /\ \/ path = "main" /\ pc = "report"
       \/ path = "fetch_clickup_data" /\ pc = "done" /\ outcome = "ok"
                                      /\ current_date = None
    /\ current_date' = Some(DayOf(from_date))
    /\ all_days' = [k \in {} |-> 0]
    /\ pc' = "days"
    /\ UNCHANGED <<day_block, llm, ai_analysis, files>>
    /\ UNCHANGED <<path, status_filter, user_id, from_date, to_date, page,
                   all_tasks, requests, responses, enrichment, enrich_log, outage,
                   returned, outcome, time_analysis>>
    /\ UNCHANGED resolverVars

\* One iteration of the while loop over the calendar dates of the window.
EnumerateDay ==
    /\ pc = "days"
    /\ LoopContinues(Val(current_date), DayOf(to_date))
    /\ LET n        == Val(current_date)
           date_str == DateOfDay(n)
           entry    == DayEntry(n, Val(time_analysis), all_tasks)
       IN  /\ all_days' = [k \in DOMAIN all_days \cup {date_str} |->
                              IF k = date_str THEN entry ELSE all_days[k]]
           /\ current_date' = Some(NextDay(n))
    /\ UNCHANGED <<day_block, llm, ai_analysis, files>>
    /\ UNCHANGED fetchVars
    /\ UNCHANGED resolverVars

\* The loop is left and the days are written out in sorted order;
\* create_structured_output returns, main() goes on to the analysis.
DisplayDays ==
    /\ pc = "days"
    /\ ~LoopContinues(Val(current_date), DayOf(to_date))
    /\ LET keys == SortedKeys(DOMAIN all_days)
       IN  day_block' = Some([i \in DOMAIN keys |-> DayLine(keys[i], all_days[keys[i]])])
    /\ pc' = IF path = "main" THEN "analyze" ELSE "done"
    /\ UNCHANGED <<current_date, all_days, llm, ai_analysis, files>>
    /\ UNCHANGED <<path, status_filter, user_id, from_date, to_date, page,
                   all_tasks, requests, responses, enrichment, enrich_log, outage,
                   returned, outcome, time_analysis>>
    /\ UNCHANGED resolverVars

\* What the generate-content call can do: GEMINI_API_KEY is missing so no
\* call is made, the call returns text, returns no text, raises, or
\* asyncio.run itself fails.
LlmOutcomes == {"no_key", "text", "empty", "raises", "loop_error"}

\* GenAIAnalyzer.analyze_async: response.text, or the error message when the
\* request raises.
analyze_async(o) ==
    CASE o = "text"   -> Some("analysis")
      [] o = "empty"  -> None
      [] o = "raises" -> Some("Error analyzing")

\* GenAIAnalyzer.analyze: asyncio.run(analyze_async(...)), None when that
\* raises.
analyze(o) == IF o = "loop_error" THEN None ELSE analyze_async(o)

\* if not ai_analysis
AnalysisFailed(analysis) == Falsy(analysis)

\* The two files main() writes for the user.
OutputFiles(analysis, analysis_data) ==
    { [name |-> "analysis.md", content |-> Some(analysis)],
      [name |-> "data.json",   content |-> Some(analysis_data)] }

\* main(): ai_analysis = analyze_clickup_data(...); return 1 when it is
\* falsy or GenAIAnalyzer() raised, otherwise write the markdown report and
\* the JSON data and return 0.
AnalyzeAndSave ==
    /\ pc = "analyze"
    /\ \E o \in LlmOutcomes :
          /\ llm' = o
          /\ IF o = "no_key"
             THEN /\ ai_analysis' = None
                  /\ files' = files
                  /\ outcome' = "error"
             ELSE /\ ai_analysis' = analyze(o)
                  /\ IF AnalysisFailed(analyze(o))
                     THEN files' = files /\ outcome' = "error"
                     ELSE /\ files' = files \cup OutputFiles(Val(analyze(o)),
                                                             Val(time_analysis))
                          /\ outcome' = "ok"
    /\ pc' = "done"
    /\ UNCHANGED <<current_date, all_days, day_block>>
    /\ UNCHANGED <<path, status_filter, user_id, from_date, to_date, page,
                   all_tasks, requests, responses, enrichment, enrich_log, outage,
                   returned, time_analysis>>
    /\ UNCHANGED resolverVars

\* Task shapes and windows handed to the report layer: windows of three
\* days, of nine days, within one day with to before from, across midnight,
\* and with to a day before from.
ReportTasks ==
    { Task("t", "closed", "done", est, None, None, updated) :
        est \in {None, Some(5400000)},
        updated \in {None, Some(TsDay0Late), Some(TsDay1Noon), Some(TsDay3)} }

ReportWindows ==
    Windows \cup
    { [from |-> [sec |-> 0, micro |-> 0],      to |-> [sec |-> 691200, micro |-> 0]],
      [from |-> [sec |-> 129600, micro |-> 0], to |-> [sec |-> 108000, micro |-> 0]],
      [from |-> [sec |-> 169200, micro |-> 0], to |-> [sec |-> 176400, micro |-> 0]],
      [from |-> [sec |-> 172800, micro |-> 0], to |-> [sec |-> 90000, micro |-> 0]] }

\* After the fetch: main() reaches the aggregation only with a task.
InitReport ==
    /\ path \in {"main", "fetch_clickup_data"}
    /\ status_filter = <<>>
    /\ user_id \in Users
    /\ \E w \in ReportWindows : from_date = w.from /\ to_date = w.to
    /\ pc = "aggregate"
    /\ page = 0
    /\ all_tasks \in SeqsUpTo(ReportTasks, MaxTasks)
    /\ path = "main" => all_tasks # <<>>
    /\ requests = <<>>
    /\ responses = <<>>
    /\ enrichment = <<>>
    /\ enrich_log = <<>>
    /\ outage = {}
    /\ returned = None
    /\ outcome = "running"
    /\ time_analysis = None
    /\ ResolverDone
    /\ ReportIdle

NextReport == Aggregate \/ StartDays \/ EnumerateDay \/ DisplayDays \/ AnalyzeAndSave

SpecReport == InitReport /\ [][NextReport]_vars

(* ------------------------------ a whole run ---------------------------- *)

\* Mutant: the "if not user: return 1" test dropped.
EntryContinues_OnNoUser(r) == r.outcome = "returned"

\* The entry point goes on to the fetch: nothing was raised and a user was
\* found ("if not user: return 1").
EntryContinues(r) == r.outcome = "returned" /\ r.user # None

\* The resolution phase of an entry point: teams = get_teams() (main.py
\* always, the CLI unless --team-id was given), "if not teams: return 1",
\* team_id = teams[0]["id"], then find_user_by_partial_name(name, team_id).
EntryResolution(p, name, tid, key, teams_resp, roster_resp) ==
    IF p = "main" \/ NeedsTeamLookup(tid)
    THEN LET log == <<Sent(<<"team">>, key, teams_resp)>>
         IN  IF ~teams_resp.ok
             THEN [team |-> tid, sent |-> log, matched |-> <<>>, user |-> None,
                   outcome |-> "RequestException"]
             ELSE IF ListOf(teams_resp) = <<>>
             THEN [team |-> tid, sent |-> log, matched |-> <<>>, user |-> None,
                   outcome |-> "No teams found"]
             ELSE LET picked == PickTeam(ListOf(teams_resp))
                      r      == find_user_by_partial_name(name, Some(picked), key,
                                                          teams_resp, roster_resp)
                  IN  [team |-> Some(picked), sent |-> log \o r.sent,
                       matched |-> r.matched, user |-> r.user, outcome |-> r.outcome]
    ELSE LET r == find_user_by_partial_name(name, tid, key, teams_resp, roster_resp)
         IN  [team |-> tid, sent |-> r.sent, matched |-> r.matched,
              user |-> r.user, outcome |-> r.outcome]

\* UserTaskAnalyzer() raised: the entry point's "except Exception" returns 1.
ReturnOnConstructError ==
    /\ pc = "start"
    /\ resolver_pc = "done"
    /\ analyzer = None
    /\ pc' = "done"
    /\ outcome' = "error"
    /\ UNCHANGED <<path, status_filter, user_id, from_date, to_date, page,
                   all_tasks, requests, responses, enrichment, enrich_log, outage,
                   returned, time_analysis>>
    /\ UNCHANGED resolverVars
    /\ UNCHANGED reportVars

\* The entry point resolves team and user, and returns 1 when there is no
\* team, no user, or a request raised; otherwise the fetch begins for
\* user["id"].
ResolveUser ==
    /\ pc = "start"
    /\ resolver_pc = "resolve"
    /\ \E teams_resp \in Answers(TeamLists), roster_resp \in Answers(Rosters) :
          LET r == EntryResolution(path, partial_name, team_id,
                                   Val(analyzer).api_key, teams_resp, roster_resp)
          IN  /\ sent' = r.sent
              /\ matched_users' = r.matched
              /\ selected_user' = r.user
              /\ resolve_outcome' = r.outcome
              /\ team_id' = r.team
              /\ user_id' = IF r.user = None THEN user_id ELSE Val(r.user).id
              /\ pc' = IF EntryContinues(r) THEN "fetch" ELSE "done"
              /\ outcome' = IF EntryContinues(r) THEN outcome ELSE "error"
    /\ resolver_pc' = "done"
    /\ UNCHANGED <<api_key, env_api_key, analyzer, partial_name>>
    /\ UNCHANGED <<path, status_filter, from_date, to_date, page, all_tasks,
                   requests, responses, enrichment, enrich_log, outage,
                   returned, time_analysis>>
    /\ UNCHANGED reportVars

\* The start of main.py's main() and of the CLI's main() as shipped: no key
\* argument, the default status filter, a user name that matches one member
\* or none, and for the CLI an optional --team-id.
InitRun ==
    /\ path \in {"main", "get_user_tasks"}
    /\ status_filter = IF path = "main" THEN <<"completed", "done", "closed">>
                       ELSE CliStatusFilter("completed")
    /\ user_id = ""
    /\ \E w \in Windows : from_date = w.from /\ to_date = w.to
    /\ pc = "start"
    /\ page = 0
    /\ all_tasks = <<>>
    /\ requests = <<>>
    /\ responses = <<>>
    /\ enrichment = <<>>
    /\ enrich_log = <<>>
    /\ outage = {}
    /\ returned = None
    /\ outcome = "running"
    /\ time_analysis = None
    /\ api_key = None
    /\ env_api_key \in {None, Some("k2")}
    /\ analyzer = None
    /\ partial_name \in { <<"N", "a">>, <<"z">> }
    /\ team_id \in (IF path = "main" THEN {None} ELSE {None, Some("T9")})
    /\ resolver_pc = "construct"
    /\ sent = <<>>
    /\ matched_users = <<>>
    /\ selected_user = None
    /\ resolve_outcome = "running"
    /\ ReportIdle

NextRun ==
    \/ Construct \/ ReturnOnConstructError \/ ResolveUser
    \/ FetchPage \/ EnrichTask \/ ReturnTasks \/ Aggregate
    \/ StartDays \/ EnumerateDay \/ DisplayDays \/ AnalyzeAndSave

SpecRun == InitRun /\ [][NextRun]_vars

(* ------------------------------ properties ----------------------------- *)

RECURSIVE SeqSum(_)
SeqSum(s) == IF s = <<>> THEN 0 ELSE Head(s) + SeqSum(Tail(s))

RECURSIVE Concat(_)
Concat(ss) == IF ss = <<>> THEN <<>> ELSE Head(ss) \o Concat(Tail(ss))

\* The UTC calendar date of each timestamp that occurs, read off the calendar.
CalendarDate(ts) ==
    CASE ts = TsDay0Late -> <<1970, 1, 1>>
      [] ts = TsDay1     -> <<1970, 1, 2>>
      [] ts = TsDay1Noon -> <<1970, 1, 2>>
      [] ts = TsDay2     -> <<1970, 1, 3>>
      [] ts = TsDay3     -> <<1970, 1, 4>>

\* The task carries a positive estimate.
Positive(task) == task.time_estimate # None /\ Val(task.time_estimate) > 0

\* The first non-absent field in the order date_done, date_closed, date_updated.
PriorityField(task) ==
    IF task.date_done # None THEN task.date_done
    ELSE IF task.date_closed # None THEN task.date_closed
    ELSE task.date_updated

\* The calendar date the priority rule gives the task, if any.
Bucket(task) ==
    IF PriorityField(task) = None THEN None
    ELSE Some(CalendarDate(Val(PriorityField(task))))

\* The summed estimates of the positive-estimate tasks bucketed under key.
BucketMs(tasks, key) ==
    SeqSum([i \in DOMAIN tasks |->
              IF Positive(tasks[i]) /\ Bucket(tasks[i]) = Some(key)
              THEN Val(tasks[i].time_estimate) ELSE 0])

\* The summed positive estimates.
PositiveMs(tasks) ==
    SeqSum([i \in DOMAIN tasks |->
              IF Positive(tasks[i]) THEN Val(tasks[i].time_estimate) ELSE 0])

Unestimated(tasks) == { i \in DOMAIN tasks : ~Positive(tasks[i]) }

\* C1: whenever the aggregator has run on a task list, tasks_with_estimates
\* + tasks_without_estimates = total_tasks, and total_tasks is the length of
\* the list.
C1_CountsPartitionTasks ==
    time_analysis # None =>
        LET r == Val(time_analysis)
        IN  /\ r.tasks_with_estimates + r.tasks_without_estimates = r.total_tasks
            /\ r.total_tasks = Len(all_tasks)

\* C1 witness: a list with both an estimated and an unestimated task was aggregated.
C1_Witness ==
    /\ time_analysis # None
    /\ Val(time_analysis).tasks_with_estimates >= 1
    /\ Val(time_analysis).tasks_without_estimates >= 1

\* C2: the keys of daily_breakdown are exactly the calendar dates of the first
\* non-absent field (date_done, then date_closed, then date_updated) of the
\* positive-estimate tasks, and each key holds the rounded sum of the
\* estimates of the tasks that rule puts there.
C2_BucketByDatePriority ==
    time_analysis # None =>
        LET r == Val(time_analysis)
            dated == { i \in DOMAIN all_tasks :
                         Positive(all_tasks[i]) /\ Bucket(all_tasks[i]) # None }
        IN  /\ DOMAIN r.daily_breakdown = { Val(Bucket(all_tasks[i])) : i \in dated }
            /\ \A k \in DOMAIN r.daily_breakdown :
                   r.daily_breakdown[k] = RoundHours(BucketMs(all_tasks, k))

\* C2 witness: an estimated task without date_done, whose date_closed and
\* date_updated fall on different days, was bucketed under its date_closed.
C2_Witness ==
    /\ time_analysis # None
    /\ \E i \in DOMAIN all_tasks :
          LET t == all_tasks[i]
          IN  /\ Positive(t)
              /\ t.date_done = None
              /\ t.date_closed # None
              /\ t.date_updated # None
              /\ CalendarDate(Val(t.date_closed)) # CalendarDate(Val(t.date_updated))
              /\ CalendarDate(Val(t.date_closed)) \in DOMAIN Val(time_analysis).daily_breakdown

\* C3: the tasks whose estimate is absent or 0 are all counted in
\* tasks_without_estimates, the total is the sum of the positive estimates
\* alone, every key of daily_breakdown is the date of a positive-estimate
\* task, and removing the unestimated tasks from the list changes neither
\* the total nor daily_breakdown.
C3_UnestimatedAddNothing ==
    time_analysis # None =>
        LET r == Val(time_analysis)
            estimated == SelectSeq(all_tasks, Positive)
            r2 == calculate_time_estimates(estimated, from_date, to_date)
        IN  /\ r.tasks_without_estimates = Cardinality(Unestimated(all_tasks))
            /\ r.total_estimate_ms = PositiveMs(all_tasks)
            /\ \A k \in DOMAIN r.daily_breakdown :
                   \E i \in DOMAIN all_tasks :
                       Positive(all_tasks[i]) /\ Bucket(all_tasks[i]) = Some(k)
            /\ r.total_estimate_ms = r2.total_estimate_ms
            /\ r.total_estimate_hours = r2.total_estimate_hours
            /\ r.daily_breakdown = r2.daily_breakdown

\* C3 witness: a dated task with estimate 0 and a task without estimate were
\* aggregated, and the date of the former is no key of daily_breakdown.
C3_Witness ==
    /\ time_analysis # None
    /\ \E i, j \in DOMAIN all_tasks :
          /\ all_tasks[i].time_estimate = Some(0)
          /\ Bucket(all_tasks[i]) # None
          /\ Val(Bucket(all_tasks[i])) \notin DOMAIN Val(time_analysis).daily_breakdown
          /\ all_tasks[j].time_estimate = None
    /\ Val(time_analysis).tasks_without_estimates = 2

(* ----------------------- properties of the fetch ------------------------ *)

\* Everything the remote has returned so far, page after page, unfiltered.
Fetched == Concat([i \in DOMAIN responses |-> TasksOf(responses[i])])

\* The status filter is present and is not the "all" filter.
PresentNotAll(p, f) ==
    IF p = "get_user_tasks" THEN f # None
    ELSE f # <<>> /\ f # <<"all">>

\* The status filter is absent (None or empty) or is the "all" filter.
AbsentOrAll(p, f) ==
    IF p = "get_user_tasks" THEN f = None
    ELSE f = <<>> \/ f = <<"all">>

IsClosed(task) == task.status.type = "closed"

NotClosed(task) == task.status.type # "closed"

\* The requested labels, case-folded.
FilterSet(p, f) ==
    IF p = "get_user_tasks" THEN { Lower(Val(f)) }
    ELSE { Lower(f[i]) : i \in DOMAIN f }

C5_NoFilterKeepsEverything ==
    AbsentOrAll(path, status_filter) => all_tasks = Fetched

\* C5 witness: under the "all" filter two pages were accumulated, one of
\* them carrying a task that is not closed.
C5_Witness ==
    /\ path # "get_user_tasks"
    /\ status_filter = <<"all">>
    /\ Len(responses) = 2
    /\ Len(all_tasks) = 2
    /\ \E i \in DOMAIN all_tasks : NotClosed(all_tasks[i])

\* C6 as stated: under every present, non-"all" filter a task that is not
\* closed-type is kept iff its lower-cased label is in the filter set.
C6_Stated_OpenKeptIffLabelInFilter ==
    PresentNotAll(path, status_filter) =>
        LET named(t) == NotClosed(t)
                        /\ Lower(t.status.status) \in FilterSet(path, status_filter)
        IN  SelectSeq(all_tasks, NotClosed) = SelectSeq(Fetched, named)

\* C6 amended: under a present, non-"all" filter a task that is not
\* closed-type is kept by main.py, and by fetch_clickup_data when the
\* selection does not include "all", iff its lower-cased label is one of the
\* lower-cased filter entries; fetch_clickup_data keeps every task when the
\* selection includes "all"; get_user_tasks keeps it under "completed",
\* "done" or "closed" iff its lower-cased label is complete, completed, done
\* or closed, and under "open" iff its status type is "open".
C6_OpenKeptByPathRule ==
    PresentNotAll(path, status_filter) =>
        LET expected(t) ==
                /\ NotClosed(t)
                /\ CASE path = "get_user_tasks" /\ status_filter = Some("open") ->
                            t.status.type = "open"
                      [] path = "get_user_tasks" /\ status_filter # Some("open") ->
                            Lower(t.status.status) \in {"complete", "completed", "done", "closed"}
                      [] path = "main" ->
                            Lower(t.status.status) \in FilterSet(path, status_filter)
                      [] path = "fetch_clickup_data" ->
                            \/ "all" \in FilterSet(path, status_filter)
                            \/ Lower(t.status.status) \in FilterSet(path, status_filter)
        IN  SelectSeq(all_tasks, NotClosed) = SelectSeq(Fetched, expected)

\* C6 witness: main.py under a filter naming "Open" kept the open task
\* labelled "Open" and dropped the open task labelled "to do".
C6_Witness ==
    /\ path = "main"
    /\ status_filter = <<"Open">>
    /\ \E i \in DOMAIN all_tasks :
          NotClosed(all_tasks[i]) /\ all_tasks[i].status.status = "Open"
    /\ \E i \in DOMAIN Fetched : Fetched[i].status.status = "to do"
    /\ \A i \in DOMAIN all_tasks : all_tasks[i].status.status # "to do"

\* The millisecond timestamp string of each window endpoint, worked out by hand.
WindowMs(dt) ==
    CASE dt = [sec |-> 0, micro |-> 1500]        -> <<1>>
      [] dt = [sec |-> 172800, micro |-> 999999] -> <<1,7,2,8,0,0,9,9,9>>
      [] dt = [sec |-> 86400, micro |-> 0]       -> <<8,6,4,0,0,0,0,0>>
      [] dt = [sec |-> 259200, micro |-> 0]      -> <<2,5,9,2,0,0,0,0,0>>

\* C7: once a page request has returned an empty or missing task list, it is
\* the last request of the fetch and the loop has been left, whatever
\* last_page said.
C7_EmptyPageEndsPagination ==
    \A i \in DOMAIN responses :
        (responses[i].ok /\ TasksOf(responses[i]) = <<>>) =>
            (i = Len(requests) /\ pc # "fetch")

\* C7 witness: page 1 came back empty with last_page explicitly false, and
\* the loop has been left.
C7_Witness ==
    /\ Len(responses) = 2
    /\ responses[2].ok
    /\ responses[2].tasks = Some(<<>>)
    /\ responses[2].last_page = Some(FALSE)
    /\ pc # "fetch"

\* C8: the requests of one fetch are for pages 0, 1, ..., n in this order,
\* each with the same assignee and the window's two millisecond timestamps,
\* and every request but the last was answered successfully with at least
\* one task and last_page false.
C8_PagesInOrderSameQuery ==
    /\ Len(responses) = Len(requests)
    /\ \A i \in DOMAIN requests :
          /\ requests[i].page = i - 1
          /\ requests[i].assignees = <<user_id>>
          /\ requests[i].date_updated_gt = WindowMs(from_date)
          /\ requests[i].date_updated_lt = WindowMs(to_date)
    /\ \A i \in 1..(Len(requests) - 1) :
          /\ responses[i].ok
          /\ TasksOf(responses[i]) # <<>>
          /\ responses[i].last_page = Some(FALSE)

\* C8 witness: page 1 was requested after page 0.
C8_Witness ==
    /\ Len(requests) = 2
    /\ requests[1].page = 0
    /\ requests[2].page = 1

\* C9 as stated: on every path, after a failed request for a page beyond the
\* first the loop is left, the run is not in error, and what is returned
\* is the list accumulated from the earlier pages.
C9_Stated_PageFailureKeepsPartial ==
    \A i \in DOMAIN responses :
        (i >= 2 /\ ~responses[i].ok) =>
            /\ pc # "fetch"
            /\ outcome # "error"
            /\ returned # None => Val(returned) = all_tasks

\* C10 as stated: after a failed request for page 0 the fetch is in error and
\* never hands a task list back to its caller.
C10_Stated_FirstPageFailureFatal ==
    (Len(responses) >= 1 /\ ~responses[1].ok) =>
        (returned = None /\ (pc \notin {"fetch", "enrich"} => outcome = "error"))

(* --------------------- properties of the enrichment -------------------- *)

\* C11 as stated: no two elements of the accumulated list have the same id.
C11_Stated_NoDuplicateIds ==
    \A i, j \in DOMAIN all_tasks :
        i # j => all_tasks[i].id # all_tasks[j].id

\* The enrichment request <<op, id>> is one the remote fails.
Fails(op, id) == <<op, id>> \in outage

\* C12: every enriched task carries [] where its request failed and exactly
\* what the remote holds for it where its request succeeded, whatever
\* happened to the requests of the other tasks; comment_count is the number
\* of comments attached; and the pass runs to the end of the list, the
\* fetch returning the whole list without an error.
C12_EnrichmentFailureIsolated ==
    /\ Len(enrichment) <= Len(all_tasks)
    /\ \A i \in DOMAIN enrichment :
          LET id == all_tasks[i].id
              e  == enrichment[i]
          IN  /\ e.comments = IF Fails("comment", id) THEN <<>> ELSE RemoteComments(id)
              /\ e.time_entries = IF Fails("time", id) THEN <<>> ELSE RemoteTimeEntries(id)
              /\ e.comment_count = Len(e.comments)
    /\ (path = "get_user_tasks" /\ pc \notin {"fetch", "enrich"}) =>
          /\ Len(enrichment) = Len(all_tasks)
          /\ returned = Some(all_tasks)
          /\ outcome # "error"

\* C12 witness: both requests of t1 failed, t1 ended with empty comments and
\* time entries although the remote holds a comment for it, and t3, enriched
\* after it, carries its time entry; the list was returned.
C12_Witness ==
    /\ path = "get_user_tasks"
    /\ returned # None
    /\ Fails("comment", "t1") /\ Fails("time", "t1")
    /\ \E i, j \in DOMAIN enrichment :
          /\ i < j
          /\ all_tasks[i].id = "t1"
          /\ enrichment[i].comments = <<>>
          /\ enrichment[i].time_entries = <<>>
          /\ all_tasks[j].id = "t3"
          /\ enrichment[j].time_entries # <<>>

IsSleep(step) == step.op = "sleep"

IsRequest(step) == step.op # "sleep"

\* C13: the enrichment pass is, task after task in list order, a 0.3 s sleep,
\* the comments request of the task, a 0.3 s sleep, its time-entries request;
\* so every request directly follows a 0.3 s sleep, and a completed pass over
\* N tasks has made 2N sleeps and 2N requests, failed or not.
C13_DelayBeforeEveryRequest ==
    /\ Len(enrich_log) = 4 * Len(enrichment)
    /\ \A i \in DOMAIN enrichment :
          LET id == all_tasks[i].id
              k  == 4 * (i - 1)
          IN  /\ IsSleep(enrich_log[k + 1]) /\ enrich_log[k + 1].tenths = 3
              /\ enrich_log[k + 2].op = "comment" /\ enrich_log[k + 2].task_id = id
              /\ IsSleep(enrich_log[k + 3]) /\ enrich_log[k + 3].tenths = 3
              /\ enrich_log[k + 4].op = "time" /\ enrich_log[k + 4].task_id = id
    /\ \A k \in DOMAIN enrich_log :
          IsRequest(enrich_log[k]) =>
              k > 1 /\ IsSleep(enrich_log[k - 1]) /\ enrich_log[k - 1].tenths = 3
    /\ (path = "get_user_tasks" /\ returned # None) =>
          /\ Len(SelectSeq(enrich_log, IsSleep)) = 2 * Len(all_tasks)
          /\ Len(SelectSeq(enrich_log, IsRequest)) = 2 * Len(all_tasks)

\* C13 witness: a pass over two tasks has completed, one of its requests
\* having failed.
C13_Witness ==
    /\ path = "get_user_tasks"
    /\ returned # None
    /\ Len(all_tasks) = 2
    /\ Len(enrich_log) = 8
    /\ \E k \in DOMAIN enrich_log : IsRequest(enrich_log[k]) /\ ~enrich_log[k].ok

\* C14 as stated: within one run no page of the task list is requested twice
\* and no comments or time-entries request is sent twice for the same task.
C14_Stated_EachRequestSentOnce ==
    /\ \A i, j \in DOMAIN requests :
          i # j => requests[i].page # requests[j].page
    /\ \A k, l \in DOMAIN enrich_log :
          (k # l /\ IsRequest(enrich_log[k]) /\ IsRequest(enrich_log[l])) =>
              <<enrich_log[k].op, enrich_log[k].task_id>>
                  # <<enrich_log[l].op, enrich_log[l].task_id>>

(* -------------------- properties of the user resolution ----------------- *)

\* Which roster members each query matches, worked out by hand: "an" and
\* "AN" occur in "Ana" and in "Dan", "" occurs everywhere, "d@" only in
\* Dan's email, "Na" only in "Ana", "z" nowhere.
MatchTable(query) ==
    CASE query = <<"a", "n">> -> {"u1", "u2"}
      [] query = <<"A", "N">> -> {"u1", "u2"}
      [] query = <<>>         -> {"u1", "u2"}
      [] query = <<"d", "@">> -> {"u2"}
      [] query = <<"N", "a">> -> {"u1"}
      [] query = <<"z">>      -> {}

\* find_user_by_partial_name has run and its roster request was answered.
RosterAnswered ==
    /\ resolver_pc = "done"
    /\ sent # <<>>
    /\ Len(sent[Len(sent)].endpoint) = 2
    /\ sent[Len(sent)].response.ok

\* The members list of that answer.
Roster == ListOf(sent[Len(sent)].response)

\* The roster positions whose member the query matches.
Hits == { i \in DOMAIN Roster : Roster[i].user.id \in MatchTable(partial_name) }

\* C15 as stated: when no roster member matches, the resolution ends in an
\* error and yields no user.
C15_Stated_NoMatchIsError ==
    (RosterAnswered /\ Hits = {}) =>
        /\ resolve_outcome \notin {"running", "returned"}
        /\ selected_user = None

\* C15 amended: when no roster member matches, find_user_by_partial_name
\* returns None as an ordinary return value: no exception is raised and no
\* user is produced.
C15_NoMatchReturnsNone ==
    (RosterAnswered /\ Hits = {}) =>
        /\ resolve_outcome = "returned"
        /\ selected_user = None
        /\ matched_users = <<>>

\* C15 witness: a roster with members was searched for a query none of them
\* matches, and the call returned.
C15_Witness ==
    /\ RosterAnswered
    /\ Roster # <<>>
    /\ Hits = {}
    /\ resolve_outcome = "returned"

\* C16: when some roster member matches, the call returns, and what it
\* returns is the user of the earliest matching member in roster order,
\* however many members match and whatever the case of the query.
C16_FirstMatchInRosterOrder ==
    (RosterAnswered /\ Hits # {}) =>
        LET first == CHOOSE i \in Hits : \A j \in Hits : i <= j
        IN  /\ resolve_outcome = "returned"
            /\ selected_user = Some(Roster[first].user)
            /\ Len(matched_users) = Cardinality(Hits)

\* C16 witness: an upper-case query matched both members of the roster and
\* the first of them was returned.
C16_Witness ==
    /\ RosterAnswered
    /\ partial_name = <<"A", "N">>
    /\ Len(Roster) = 2
    /\ Cardinality(Hits) = 2
    /\ selected_user = Some(Roster[1].user)
    /\ resolve_outcome = "returned"

\* No team id was passed (None or the empty string).
NoTeamId == team_id = None \/ team_id = Some("")

\* C17: without a team id the first request lists the teams; if that list is
\* empty the call fails with the no-teams error and no roster request is
\* sent, otherwise the roster request that follows is for the first team of
\* the list.  With a team id the only request is the roster request for that
\* team.
C17_FirstTeamOrNoTeamsError ==
    (resolver_pc = "done" /\ analyzer # None) =>
        IF NoTeamId
        THEN /\ Len(sent) >= 1
             /\ sent[1].endpoint = <<"team">>
             /\ ~sent[1].response.ok =>
                    Len(sent) = 1 /\ resolve_outcome = "RequestException"
             /\ (sent[1].response.ok /\ ListOf(sent[1].response) = <<>>) =>
                    /\ Len(sent) = 1
                    /\ resolve_outcome = "ValueError: No teams found for this API key"
                    /\ selected_user = None
             /\ (sent[1].response.ok /\ ListOf(sent[1].response) # <<>>) =>
                    /\ Len(sent) = 2
                    /\ sent[2].endpoint = <<"team", Head(ListOf(sent[1].response)).id>>
        ELSE /\ Len(sent) = 1
             /\ sent[1].endpoint = <<"team", Val(team_id)>>

\* C17 witness: without a team id, a list of two teams was received and the
\* roster of the first was requested.
C17_Witness ==
    /\ resolver_pc = "done"
    /\ NoTeamId
    /\ Len(sent) = 2
    /\ Len(ListOf(sent[1].response)) = 2
    /\ sent[2].endpoint = <<"team", "T2">>

\* Neither the argument nor the environment holds a non-empty key.
KeyAbsent ==
    /\ api_key = None \/ api_key = Some("")
    /\ env_api_key = None \/ env_api_key = Some("")

\* C18: with no key (absent or empty, argument and environment alike) the
\* construction raises the key-required error and no analyzer exists, so no
\* request is ever sent; every request that is sent carries a non-empty key.
C18_NoKeyNoClient ==
    /\ (KeyAbsent /\ resolver_pc # "construct") =>
          /\ analyzer = None
          /\ resolver_pc = "done"
          /\ resolve_outcome = "ValueError: ClickUp API key is required"
    /\ KeyAbsent => sent = <<>>
    /\ analyzer # None => Val(analyzer).api_key # ""
    /\ \A i \in DOMAIN sent : analyzer # None /\ sent[i].authorization # ""

\* C18 witness: construction with an empty key argument and no key in the
\* environment has failed.
C18_Witness ==
    /\ api_key = Some("")
    /\ env_api_key = None
    /\ resolver_pc = "done"
    /\ analyzer = None
    /\ resolve_outcome = "ValueError: ClickUp API key is required"

(* ------------------ more properties of the aggregation ------------------ *)

\* The sum of the values of a dictionary.
RECURSIVE DictSum(_)
DictSum(d) ==
    IF DOMAIN d = {} THEN 0
    ELSE LET k == CHOOSE x \in DOMAIN d : TRUE
         IN  d[k] + DictSum([x \in DOMAIN d \ {k} |-> d[x]])

\* The positive-estimate tasks none of whose three dates is present.
Undated(tasks) == { i \in DOMAIN tasks : Positive(tasks[i]) /\ Bucket(tasks[i]) = None }

\* The summed estimates of those tasks.
UndatedMs(tasks) ==
    SeqSum([i \in DOMAIN tasks |->
              IF i \in Undated(tasks) THEN Val(tasks[i].time_estimate) ELSE 0])

\* C19: every positive-estimate task is counted in tasks_with_estimates and
\* its estimate is in the total, dated or not; the per-day millisecond sums
\* add up to the total less the estimates of the undated tasks, so they are
\* at most the total, and equal to it exactly when no estimated task is
\* undated.
C19_UndatedInTotalNotInDays ==
    time_analysis # None =>
        LET r    == Val(time_analysis)
            days == DictSum(Accumulate(all_tasks).daily_estimates)
        IN  /\ r.tasks_with_estimates
                  = Cardinality({ i \in DOMAIN all_tasks : Positive(all_tasks[i]) })
            /\ r.total_estimate_ms = PositiveMs(all_tasks)
            /\ days = r.total_estimate_ms - UndatedMs(all_tasks)
            /\ days <= r.total_estimate_ms
            /\ (days = r.total_estimate_ms) <=> (Undated(all_tasks) = {})

\* C19 witness: an estimated task without dates and an estimated task with a
\* date were aggregated; the days hold less than the total.
C19_Witness ==
    /\ time_analysis # None
    /\ Undated(all_tasks) # {}
    /\ DOMAIN Val(time_analysis).daily_breakdown # {}
    /\ Val(time_analysis).tasks_with_estimates = 2
    /\ DictSum(Accumulate(all_tasks).daily_estimates) < Val(time_analysis).total_estimate_ms

\* The calendar dates of the timestamps that occur.
Dates == { <<1970, 1, d>> : d \in 1..4 }

\* C20: a calendar date is a key of daily_breakdown if and only if some
\* positive-estimate task resolves to it by the date priority rule.
C20_KeysAreEstimatedDates ==
    time_analysis # None =>
        LET r == Val(time_analysis)
        IN  /\ DOMAIN r.daily_breakdown \subseteq Dates
            /\ \A d \in Dates :
                   d \in DOMAIN r.daily_breakdown
                       <=> \E i \in DOMAIN all_tasks :
                              Positive(all_tasks[i]) /\ Bucket(all_tasks[i]) = Some(d)

\* C20 witness: one date has only an unestimated task and is no key, another
\* date has an estimated task and is a key.
C20_Witness ==
    /\ time_analysis # None
    /\ \E i, j \in DOMAIN all_tasks :
          /\ ~Positive(all_tasks[i])
          /\ Bucket(all_tasks[i]) # None
          /\ Val(Bucket(all_tasks[i])) \notin DOMAIN Val(time_analysis).daily_breakdown
          /\ Positive(all_tasks[j])
          /\ Bucket(all_tasks[j]) # None
          /\ Val(Bucket(all_tasks[j])) \in DOMAIN Val(time_analysis).daily_breakdown

\* date1 < date2 on <<year, month, day>>.
DateBefore(a, b) == DateLeq(a, b) /\ a # b

\* The calendar date of each window endpoint, read off the calendar.
WindowDate(dt) ==
    CASE dt = [sec |-> 0, micro |-> 1500]        -> <<1970, 1, 1>>
      [] dt = [sec |-> 172800, micro |-> 999999] -> <<1970, 1, 3>>
      [] dt = [sec |-> 86400, micro |-> 0]       -> <<1970, 1, 2>>
      [] dt = [sec |-> 259200, micro |-> 0]      -> <<1970, 1, 4>>

\* C21: the result of the aggregation is the same whichever window is passed
\* with the task list, and every dated positive-estimate task has its date as
\* a key of daily_breakdown, also when that date lies before the window's
\* first day or after its last.
C21_WindowIgnored ==
    time_analysis # None =>
        LET r == Val(time_analysis)
        IN  /\ \A w \in Windows :
                   calculate_time_estimates(all_tasks, w.from, w.to) = r
            /\ \A i \in DOMAIN all_tasks :
                   (Positive(all_tasks[i]) /\ Bucket(all_tasks[i]) # None) =>
                       Val(Bucket(all_tasks[i])) \in DOMAIN r.daily_breakdown

\* C21 witness: daily_breakdown has a key before the window's first day.
C21_Witness ==
    /\ time_analysis # None
    /\ \E k \in DOMAIN Val(time_analysis).daily_breakdown :
          DateBefore(k, WindowDate(from_date))

Abs(x) == IF x < 0 THEN -x ELSE x

\* h hundredths of an hour is ms / 3,600,000 rounded to two decimals: no
\* other hundredth is nearer.
NearestHundredth(h, ms) == 2 * Abs(36000 * h - ms) <= 36000

\* C22: the total and every day of daily_breakdown are the millisecond sum
\* divided by 3,600,000 and rounded to two decimals; 3,600,000 ms gives
\* 1.0 hour and 5,400,000 ms gives 1.5 hours.
C22_HoursRoundedToTwoDecimals ==
    time_analysis # None =>
        LET r == Val(time_analysis)
        IN  /\ NearestHundredth(r.total_estimate_hours, r.total_estimate_ms)
            /\ \A k \in DOMAIN r.daily_breakdown :
                   NearestHundredth(r.daily_breakdown[k], BucketMs(all_tasks, k))
            /\ r.total_estimate_ms = 3600000 => r.total_estimate_hours = 100
            /\ r.total_estimate_ms = 5400000 => r.total_estimate_hours = 150
            /\ \A k \in DOMAIN r.daily_breakdown :
                   /\ BucketMs(all_tasks, k) = 3600000 => r.daily_breakdown[k] = 100
                   /\ BucketMs(all_tasks, k) = 5400000 => r.daily_breakdown[k] = 150

\* C22 witness: one day holds 3,600,000 ms and shows 1.0 hour, another holds
\* 5,400,000 ms and shows 1.5 hours.
C22_Witness ==
    /\ time_analysis # None
    /\ \E k1, k2 \in DOMAIN Val(time_analysis).daily_breakdown :
          /\ BucketMs(all_tasks, k1) = 3600000
          /\ Val(time_analysis).daily_breakdown[k1] = 100
          /\ BucketMs(all_tasks, k2) = 5400000
          /\ Val(time_analysis).daily_breakdown[k2] = 150

\* C23: total_estimate_hours is the rounding of the whole millisecond total,
\* whatever the days show: it is the nearest hundredth to the total, and it
\* is what a single task carrying the whole total would give.
C23_TotalRoundedOnce ==
    time_analysis # None =>
        LET r == Val(time_analysis)
        IN  /\ r.total_estimate_ms = PositiveMs(all_tasks)
            /\ NearestHundredth(r.total_estimate_hours, PositiveMs(all_tasks))
            /\ r.total_estimate_hours = RoundHours(PositiveMs(all_tasks))

\* C23 witness: two days of 450,000 ms each show 0.12 hours each, and the
\* total shows 0.25 hours, not 0.24.
C23_Witness ==
    /\ time_analysis # None
    /\ Cardinality(DOMAIN Val(time_analysis).daily_breakdown) = 2
    /\ \A k \in DOMAIN Val(time_analysis).daily_breakdown :
          Val(time_analysis).daily_breakdown[k] = 12
    /\ Val(time_analysis).total_estimate_hours = 25
    /\ DictSum(Val(time_analysis).daily_breakdown) = 24

\* C24: the aggregation of the empty list has all counters 0, a total of 0
\* ms and 0.0 hours, and an empty daily_breakdown, whatever the window.
C24_EmptyListAggregatesToZero ==
    (time_analysis # None /\ all_tasks = <<>>) =>
        LET r == Val(time_analysis)
        IN  /\ r.total_tasks = 0
            /\ r.tasks_with_estimates = 0
            /\ r.tasks_without_estimates = 0
            /\ r.total_estimate_ms = 0
            /\ r.total_estimate_hours = 0
            /\ DOMAIN r.daily_breakdown = {}

\* C24 witness: the empty list was aggregated under the second window.
C24_Witness ==
    /\ time_analysis # None
    /\ all_tasks = <<>>
    /\ WindowDate(from_date) = <<1970, 1, 2>>

\* C28: a successful, non-empty task-list answer that carries no last_page
\* field is the last request of the fetch and the loop has been left; so a
\* page beyond the first is requested only when every earlier answer said
\* last_page false explicitly.
C28_MissingLastPageIsLast ==
    /\ \A i \in DOMAIN responses :
          (responses[i].ok /\ TasksOf(responses[i]) # <<>>
                           /\ responses[i].last_page = None) =>
              (i = Len(requests) /\ pc # "fetch")
    /\ \A i \in DOMAIN requests :
          \A j \in 1..(i - 1) : responses[j].last_page = Some(FALSE)

\* C28 witness: page 0 came back with a task and no last_page field, and the
\* loop was left after that single request.
C28_Witness ==
    /\ Len(requests) = 1
    /\ responses[1].ok
    /\ TasksOf(responses[1]) # <<>>
    /\ responses[1].last_page = None
    /\ pc # "fetch"

\* A non-empty page of which the status filter of the run keeps nothing.
WhollyFiltered(resp) ==
    /\ resp.ok
    /\ TasksOf(resp) # <<>>
    /\ FilterPage(path, status_filter, TasksOf(resp)) = <<>>

\* C29: after a non-empty page whose tasks the status filter all removed and
\* whose last_page is false, pagination goes on: the next page has been
\* requested or the loop stands at it, and what a later page contributes is
\* kept.
C29_FilteredEmptyPageDoesNotStop ==
    \A i \in DOMAIN responses :
        (WhollyFiltered(responses[i]) /\ responses[i].last_page = Some(FALSE)) =>
            /\ Len(requests) > i \/ (pc = "fetch" /\ page = i)
            /\ \A j \in (i + 1)..Len(responses) :
                  responses[j].ok =>
                      \A k \in DOMAIN FilterPage(path, status_filter, TasksOf(responses[j])) :
                          \E n \in DOMAIN all_tasks :
                              all_tasks[n] = FilterPage(path, status_filter,
                                                        TasksOf(responses[j]))[k]

\* C29 witness: page 0 held a task the filter removed, page 1 was requested
\* and its task is in the result.
C29_Witness ==
    /\ Len(responses) = 2
    /\ WhollyFiltered(responses[1])
    /\ responses[1].last_page = Some(FALSE)
    /\ responses[2].ok
    /\ FilterPage(path, status_filter, TasksOf(responses[2])) # <<>>
    /\ all_tasks = FilterPage(path, status_filter, TasksOf(responses[2]))

\* The calendar dates from from.date() to to.date() of each window, worked
\* out by hand.
WindowDates(from, to) ==
    CASE from.sec = 0 /\ to.sec = 172800 ->
             << <<1970, 1, 1>>, <<1970, 1, 2>>, <<1970, 1, 3>> >>
      [] from.sec = 86400 /\ to.sec = 259200 ->
             << <<1970, 1, 2>>, <<1970, 1, 3>>, <<1970, 1, 4>> >>
      [] from.sec = 0 /\ to.sec = 691200 ->
             << <<1970, 1, 1>>, <<1970, 1, 2>>, <<1970, 1, 3>>, <<1970, 1, 4>>,
                <<1970, 1, 5>>, <<1970, 1, 6>>, <<1970, 1, 7>>, <<1970, 1, 8>>,
                <<1970, 1, 9>> >>
      [] from.sec = 129600 /\ to.sec = 108000 -> << <<1970, 1, 2>> >>
      [] from.sec = 169200 /\ to.sec = 176400 ->
             << <<1970, 1, 2>>, <<1970, 1, 3>> >>
      [] from.sec = 172800 /\ to.sec = 90000  -> << >>

\* The day-by-day block lists exactly the dates of the window, once each and
\* in ascending order, each with the hours of its daily_breakdown key or 0.
DayBlockExact ==
    day_block # None =>
        /\ [i \in DOMAIN Val(day_block) |-> Val(day_block)[i].date]
               = WindowDates(from_date, to_date)
        /\ DOMAIN all_days = SeqToSet(WindowDates(from_date, to_date))
        /\ \A i \in DOMAIN Val(day_block) :
              LET line      == Val(day_block)[i]
                  breakdown == Val(time_analysis).daily_breakdown
              IN  /\ line.date \in DOMAIN breakdown => line.hours = breakdown[line.date]
                  /\ line.date \notin DOMAIN breakdown => line.hours = 0

\* While the loop runs, the dates entered so far are the first k dates of the
\* window and the loop variable stands at the next one: every iteration
\* enters a new date, so there are at most as many iterations as dates.
LoopAdvances ==
    pc = "days" =>
        LET dates == WindowDates(from_date, to_date)
            k     == Cardinality(DOMAIN all_days)
        IN  /\ k <= Len(dates)
            /\ DOMAIN all_days = { dates[i] : i \in 1..k }
            /\ k < Len(dates) => DateOfDay(Val(current_date)) = dates[k + 1]

\* C25: the day-by-day block holds exactly one entry for every calendar date
\* from from.date() to to.date(), in ascending order, dates without tasks
\* included, with hours daily_breakdown[d] or 0; the enumeration loop ends
\* after one iteration per date (none when to.date() is before from.date()).
C25_EveryDayOfWindowEnumerated == DayBlockExact /\ LoopAdvances

\* C25 witness: the nine-day window was enumerated for a list whose only
\* estimated task falls on 1970-01-02, so eight days show 0 hours.
C25_Witness ==
    /\ day_block # None
    /\ Len(Val(day_block)) = 9
    /\ Val(day_block)[2].hours = 150
    /\ \A i \in DOMAIN Val(day_block) : i # 2 => Val(day_block)[i].hours = 0

\* The day of the week of each date of January 1970 that occurs.
DayName(date) ==
    CASE date = <<1970, 1, 1>> -> "Thursday"
      [] date = <<1970, 1, 2>> -> "Friday"
      [] date = <<1970, 1, 3>> -> "Saturday"
      [] date = <<1970, 1, 4>> -> "Sunday"
      [] date = <<1970, 1, 5>> -> "Monday"
      [] date = <<1970, 1, 6>> -> "Tuesday"
      [] date = <<1970, 1, 7>> -> "Wednesday"
      [] date = <<1970, 1, 8>> -> "Thursday"
      [] date = <<1970, 1, 9>> -> "Friday"

\* C26: a date of the enumeration is flagged as weekend exactly when it is a
\* Friday or a Saturday, the label then names that day, and no other day
\* (Sunday in particular) carries a flag or a label; the written lines
\* carry the same marker.
C26_WeekendIsFridaySaturday ==
    /\ \A d \in DOMAIN all_days :
          /\ all_days[d].is_weekend <=> DayName(d) \in {"Friday", "Saturday"}
          /\ all_days[d].is_weekend => all_days[d].weekend_day = Some(DayName(d))
          /\ ~all_days[d].is_weekend => all_days[d].weekend_day = None
    /\ day_block # None =>
          \A i \in DOMAIN Val(day_block) :
              LET line == Val(day_block)[i]
              IN  IF DayName(line.date) \in {"Friday", "Saturday"}
                  THEN line.weekend_marker = Some(DayName(line.date))
                  ELSE line.weekend_marker = None

\* C26 witness: a Friday, a Saturday and a Sunday were enumerated; the first
\* two are flagged and the Sunday is not.
C26_Witness ==
    /\ {<<1970, 1, 2>>, <<1970, 1, 3>>, <<1970, 1, 4>>} \subseteq DOMAIN all_days
    /\ all_days[<<1970, 1, 2>>].weekend_day = Some("Friday")
    /\ all_days[<<1970, 1, 3>>].weekend_day = Some("Saturday")
    /\ ~all_days[<<1970, 1, 4>>].is_weekend

\* C30 as stated: when the generate-content request raises, the run ends in
\* error with no file written, and a markdown report only ever holds text
\* the model produced.
C30_Stated_LlmFailureWritesNothing ==
    /\ llm = "raises" => (pc = "done" /\ outcome = "error" /\ files = {})
    /\ \A f \in files : f.name = "analysis.md" => llm = "text"

\* A team or roster request failed, the team list was empty, or the roster
\* came back and none of its members matches the name.
ResolutionFailed ==
    \/ \E i \in DOMAIN sent : ~sent[i].response.ok
    \/ \E i \in DOMAIN sent : /\ sent[i].endpoint = <<"team">>
                               /\ sent[i].response.ok
                               /\ ListOf(sent[i].response) = <<>>
    \/ RosterAnswered /\ Hits = {}

\* C27: a task-list request is sent only after the roster of a team was
\* fetched and a member matched, and is for that member; aggregation comes
\* only after a task-list request and the report, the analysis and the files
\* only after aggregation; when the team list is empty, no member matches or
\* a team/roster request fails, the run has ended in error with no task-list
\* request, no aggregation and no file.
C27_ResolveFetchAggregateReport ==
    /\ requests # <<>> =>
          /\ RosterAnswered
          /\ Hits # {}
          /\ team_id # None
          /\ sent[Len(sent)].endpoint = <<"team", Val(team_id)>>
          /\ selected_user # None
          /\ user_id = Val(selected_user).id
          /\ \A i \in DOMAIN requests : requests[i].assignees = <<Val(selected_user).id>>
    /\ time_analysis # None => requests # <<>>
    /\ (current_date # None \/ llm # "none" \/ files # {}) => time_analysis # None
    /\ (resolver_pc = "done" /\ ResolutionFailed) =>
          /\ pc = "done"
          /\ outcome = "error"
          /\ requests = <<>>
          /\ time_analysis = None
          /\ files = {}

\* C27 witness: the roster of the first team was fetched, no member matched
\* the name, and the run ended in error before any task-list request.
C27_Witness ==
    /\ RosterAnswered
    /\ Roster # <<>>
    /\ Hits = {}
    /\ Len(sent) = 2
    /\ pc = "done"
    /\ outcome = "error"
    /\ requests = <<>>

====
